---- MODULE Spec2Model ----
\* LiveSession (services/geminiService, src/unnamed/part_003) and the App callbacks
\* that drive it (src/unnamed/part_000), as a state machine on the browser's
\* single-threaded event loop: every action is one task (a public call, an event
\* of the remote channel, a resumed await) or one microtask continuation.
EXTENDS Integers, Sequences, FiniteSets, TLC

\* ---------------------------------------------------------------- bounds
MaxConnects == 2      \* connect() calls that get past the active check
MaxChunks == 2        \* playback chunks scheduled over a run
MaxDur == 2           \* longest chunk duration, in clock units
MaxClock == 3         \* highest value of the output device clock
MaxCalls == 2         \* tool calls received over a run
MaxBatch == 2         \* tool calls in one batch
SampleDen == 5        \* samples are the multiples of 1/SampleDen in [-2, 2]
MaxFrame == 2         \* samples in one frame
MaxReminders == 3     \* reminders in the App's list
MaxMs == 2            \* highest millisecond Date.now() returns

\* ---------------------------------------------------------------- constants
NULL == 0

\* floatTo16BitPCM scales a negative sample by 0x8000 and any other by 0x7FFF;
\* pcmToAudioBuffer divides by 32768.
NegScale == 32768
PosScale == 32767
DecodeScale == 32768
MsPerMinute == 60000

DISCONNECTED == "disconnected"
CONNECTING == "connecting"
CONNECTED == "connected"
ERROR == "error"
LiveConnectionState == {DISCONNECTED, CONNECTING, CONNECTED, ERROR}

SEARCH_YOUTUBE == "search_youtube"
OPEN_URL == "open_url"
SET_REMINDER == "set_reminder"
ToolName == {SEARCH_YOUTUBE, OPEN_URL, SET_REMINDER}

VARIABLES
    \* fields of LiveSession
    active, session, inputAudioContext, outputAudioContext, inputSource,
    processor, nextStartTime, scheduledSources, videoInterval, videoCanvas,
    \* the connection attempts: connect()'s position, the channel, its promise
    attempts, closeQueued, closeCalls,
    \* audio contexts closed, graph nodes disconnected, interval timers registered
    closedIn, closedOut, disconnected, videoTimers,
    \* the output device: its clock, the sources created, pending continuations
    clock, chunks, microtask, resetTimers, flushedSince,
    \* the tool-call batches in progress
    toolBatches,
    \* what the caller has been told: per attempt, the state reported last, the
    \* App's liveState, and the order in which CONNECTING, CONNECTED, a caption
    \* and a volume callback first fired
    reports, lastReported, liveState, firsts,
    \* the operation that ran last, and the message it handled
    lastOp, lastMsg, lastCaptions,
    \* a frame of samples on its way through the PCM16 conversions
    pcm,
    \* what the capture callback or the video sampler did with its last frame
    lastFrame,
    \* the App's reminder list and the millisecond Date.now() returns
    reminders, dateNow,
    \* the speech hook: its isListening flag, the recognizer, what it did last
    isListening, recognition, speechLog, transcript,
    \* the hook's isSpeaking flag and the utterance handed to speechSynthesis
    isSpeaking, utterance

fields == <<active, session, inputAudioContext, outputAudioContext, inputSource,
            processor, nextStartTime, scheduledSources, videoInterval, videoCanvas>>
channel == <<attempts, closeQueued, closeCalls>>
devices == <<closedIn, closedOut, disconnected, videoTimers>>
playback == <<clock, chunks, microtask, resetTimers, flushedSince>>
caller == <<reports, lastReported, liveState, firsts>>
trace == <<lastOp, lastMsg, lastCaptions>>
app == <<reminders, dateNow>>
listening == <<isListening, recognition, transcript>>
speech == <<listening, speechLog, isSpeaking, utterance>>
vars == <<fields, channel, devices, playback, toolBatches, caller, trace, pcm,
          lastFrame, app, speech>>

Attempts == 1..MaxConnects

\* handleMessage for batch b of tool calls waits on a session promise that has
\* settled: its continuation is in the microtask queue.
Sending(b) ==
    /\ toolBatches[b].stage = "awaitSession"
    /\ attempts[toolBatches[b].a].promise \in {"resolved", "rejected"}

\* Batch b has a continuation of handleMessage in the microtask queue: the
\* App's dispatcher awaits nothing but resolved promises, and the await of a
\* settled session promise resumes at once.
Resuming(b) ==
    \/ toolBatches[b].by = "app" /\ toolBatches[b].stage = "dispatching"
    \/ Sending(b)

\* The event loop runs a task only when no microtask is pending.
Idle ==
    /\ microtask = <<>>
    /\ \A b \in DOMAIN toolBatches : ~Resuming(b)

\* ---------------------------------------------------------------- construction
InitSession ==
    /\ active = FALSE
    /\ session = NULL
    /\ inputAudioContext = NULL
    /\ outputAudioContext = NULL
    /\ inputSource = NULL
    /\ processor = NULL
    /\ nextStartTime = 0
    /\ scheduledSources = {}
    /\ videoInterval = NULL
    /\ videoCanvas = NULL
    /\ attempts = <<>>
    /\ closeQueued = [a \in Attempts |-> 0]
    /\ closeCalls = [a \in Attempts |-> 0]
    /\ closedIn = {}
    /\ closedOut = {}
    /\ disconnected = {}
    /\ videoTimers = 0
    /\ clock = 0
    /\ chunks = <<>>
    /\ microtask = <<>>
    /\ resetTimers = {}
    /\ flushedSince = TRUE
    /\ toolBatches = <<>>
    /\ reports = [a \in Attempts |-> <<>>]
    /\ lastReported = "none"
    /\ liveState = DISCONNECTED
    /\ firsts = <<>>
    /\ lastOp = "new"
    /\ lastMsg = <<>>
    /\ lastCaptions = <<>>
    /\ lastFrame = <<>>
    /\ reminders = <<>>
    /\ dateNow = 0
    /\ isListening = FALSE
    /\ recognition = "idle"
    /\ speechLog = [op |-> "mount", on |-> "idle", error |-> "", logged |-> FALSE]
    /\ transcript = ""
    /\ isSpeaking = FALSE
    /\ utterance = "none"

\* A new LiveSession; no frame is being converted.
Init == InitSession /\ pcm = <<>>

\* ---------------------------------------------------------------- callbacks
InSeq(x, s) == \E i \in DOMAIN s : s[i] = x

\* firsts with the kind x added at the end, unless it has fired before.
Note(s, x) ==
    IF InSeq(x, s) \/ x \notin {CONNECTING, CONNECTED, "caption", "volume"}
    THEN s ELSE Append(s, x)

\* config.onStateChange(s), called for attempt a; the App's handler is setLiveState.
onStateChange(a, s) ==
    /\ reports' = [reports EXCEPT ![a] = Append(@, s)]
    /\ lastReported' = s
    /\ liveState' = s
    /\ firsts' = Note(firsts, s)

\* ---------------------------------------------------------------- teardown
\* A stopVideoStream() that forgets clearInterval: the timer stays registered.
stopVideoStream_KeepsTimer ==
    /\ videoTimers' = videoTimers
    /\ videoInterval' = NULL
    /\ videoCanvas' = NULL

\* stopVideoStream(): clears the sampling timer if one is registered.
stopVideoStream ==
    /\ videoTimers' = IF videoInterval # NULL THEN videoTimers - 1 ELSE videoTimers
    /\ videoInterval' = NULL
    /\ videoCanvas' = NULL

\* A stopAudioPlayback() that stops the sources but forgets to clear the set.
stopAudioPlayback_KeepsSet ==
    /\ chunks' = [c \in DOMAIN chunks |->
                    IF c \in scheduledSources
                    THEN [chunks[c] EXCEPT !.stopped = TRUE]
                    ELSE chunks[c]]
    /\ scheduledSources' = scheduledSources
    /\ nextStartTime' = 0
    /\ flushedSince' = TRUE

\* stopAudioPlayback(): stops every in-flight source, clears the set, cursor to 0.
stopAudioPlayback ==
    /\ chunks' = [c \in DOMAIN chunks |->
                    IF c \in scheduledSources
                    THEN [chunks[c] EXCEPT !.stopped = TRUE]
                    ELSE chunks[c]]
    /\ scheduledSources' = {}
    /\ nextStartTime' = 0
    /\ flushedSince' = TRUE

\* A teardown that asks for the close but keeps the session reference.
closeSession_KeepsSession ==
    /\ closeCalls' = IF session # NULL /\ attempts[session].promise = "resolved"
                     THEN [closeCalls EXCEPT ![session] = @ + 1] ELSE closeCalls
    /\ closeQueued' = IF session # NULL /\ attempts[session].promise = "pending"
                      THEN [closeQueued EXCEPT ![session] = @ + 1] ELSE closeQueued
    /\ session' = session

\* The close that stop() chains on the session promise: it runs at once on a
\* resolved promise, on resolution of a pending one, never on a rejected one.
closeSession ==
    /\ closeCalls' = IF session # NULL /\ attempts[session].promise = "resolved"
                     THEN [closeCalls EXCEPT ![session] = @ + 1] ELSE closeCalls
    /\ closeQueued' = IF session # NULL /\ attempts[session].promise = "pending"
                      THEN [closeQueued EXCEPT ![session] = @ + 1] ELSE closeQueued
    /\ session' = NULL

\* stop()
stop ==
    /\ active' = FALSE
    /\ stopVideoStream
    /\ stopAudioPlayback
    /\ closedIn' = IF inputAudioContext # NULL
                   THEN closedIn \cup {inputAudioContext} ELSE closedIn
    /\ inputAudioContext' = NULL
    /\ closedOut' = IF outputAudioContext # NULL
                    THEN closedOut \cup {outputAudioContext} ELSE closedOut
    /\ outputAudioContext' = NULL
    /\ disconnected' = disconnected
                         \cup (IF processor # NULL THEN {<<"processor", processor>>} ELSE {})
                         \cup (IF inputSource # NULL THEN {<<"inputSource", inputSource>>} ELSE {})
    /\ processor' = NULL
    /\ inputSource' = NULL
    /\ closeSession

\* What stop() leaves alone, besides what its caller assigns.
stopFrame == UNCHANGED <<clock, microtask, resetTimers, toolBatches, lastMsg, lastCaptions, pcm, lastFrame, app, speech>>

\* App.stopLiveSession, the caller of stop(): stop(), then setLiveState(DISCONNECTED).
stopLiveSession ==
    /\ Idle
    /\ stop
    /\ liveState' = DISCONNECTED
    /\ lastOp' = IF lastOp \in {"stop", "stopAgain"} THEN "stopAgain" ELSE "stop"
    /\ stopFrame
    /\ UNCHANGED <<attempts, reports, lastReported, firsts>>

\* ---------------------------------------------------------------- connect
\* A connect() without the active check.
connect_NoActiveCheck ==
    /\ Idle
    /\ lastOp' = "connect"
    /\ Len(attempts) < MaxConnects
    /\ onStateChange(Len(attempts) + 1, CONNECTING)
    /\ inputAudioContext' = Len(attempts) + 1
    /\ outputAudioContext' = Len(attempts) + 1
    /\ clock' = 0
    /\ attempts' = Append(attempts, [pc |-> "awaitMic", ch |-> "none",
                                     promise |-> "none", opened |-> FALSE])
    /\ UNCHANGED <<active, session, inputSource, processor, nextStartTime,
                   scheduledSources, videoInterval, videoCanvas,
                   closeQueued, closeCalls, devices,
                   chunks, microtask, resetTimers, flushedSince,
                   toolBatches, lastMsg, lastCaptions, pcm, lastFrame, app, speech>>

\* connect() up to its first await: the active check, the CONNECTING report and
\* the two audio contexts; then it waits for the microphone.
connect ==
    /\ Idle
    /\ lastOp' = "connect"
    /\ IF active
       THEN UNCHANGED <<fields, channel, devices, playback, toolBatches, caller,
                        lastMsg, lastCaptions, pcm, lastFrame, app, speech>>
       ELSE /\ Len(attempts) < MaxConnects
            /\ onStateChange(Len(attempts) + 1, CONNECTING)
            /\ inputAudioContext' = Len(attempts) + 1
            /\ outputAudioContext' = Len(attempts) + 1
            /\ clock' = 0
            /\ attempts' = Append(attempts, [pc |-> "awaitMic", ch |-> "none",
                                             promise |-> "none", opened |-> FALSE])
            /\ UNCHANGED <<active, session, inputSource, processor, nextStartTime,
                           scheduledSources, videoInterval, videoCanvas,
                           closeQueued, closeCalls, devices,
                           chunks, microtask, resetTimers, flushedSince,
                           toolBatches, lastMsg, lastCaptions, pcm, lastFrame, app, speech>>

\* getUserMedia resolves: connect() resumes, starts opening the channel and
\* saves the session promise.
MicGranted(a) ==
    /\ Idle
    /\ a \in DOMAIN attempts
    /\ attempts[a].pc = "awaitMic"
    /\ attempts' = [attempts EXCEPT ![a] = [pc |-> "channel", ch |-> "opening",
                                            promise |-> "pending", opened |-> FALSE]]
    /\ session' = a
    /\ lastOp' = "other"
    /\ UNCHANGED <<active, inputAudioContext, outputAudioContext, inputSource, processor,
                   nextStartTime, scheduledSources, videoInterval, videoCanvas,
                   closeQueued, closeCalls, devices, playback, toolBatches, caller,
                   lastMsg, lastCaptions, pcm, lastFrame, app, speech>>

\* A catch block that reports ERROR and forgets stop().
MicDenied_NoStop(a) ==
    /\ Idle
    /\ a \in DOMAIN attempts
    /\ attempts[a].pc = "awaitMic"
    /\ attempts' = [attempts EXCEPT ![a].pc = "failed"]
    /\ onStateChange(a, ERROR)
    /\ lastOp' = "connectCatch"
    /\ UNCHANGED <<fields, closeQueued, closeCalls, devices, playback, toolBatches,
                   lastMsg, lastCaptions, pcm, lastFrame, app, speech>>

\* getUserMedia rejects: the catch block reports ERROR and calls stop().
MicDenied(a) ==
    /\ Idle
    /\ a \in DOMAIN attempts
    /\ attempts[a].pc = "awaitMic"
    /\ attempts' = [attempts EXCEPT ![a].pc = "failed"]
    /\ onStateChange(a, ERROR)
    /\ stop
    /\ lastOp' = "connectCatch"
    /\ stopFrame

\* startAudioInput(stream, sessionPromise), called by onopen.
startAudioInput(a) ==
    IF inputAudioContext = NULL
    THEN UNCHANGED <<inputSource, processor>>
    ELSE inputSource' = a /\ processor' = a

\* An onopen that activates the session and starts the microphone without
\* reporting CONNECTED.
OnOpen_NoReport(a) ==
    /\ Idle
    /\ a \in DOMAIN attempts
    /\ attempts[a].ch = "opening"
    /\ attempts' = [attempts EXCEPT ![a].ch = "open", ![a].opened = TRUE]
    /\ active' = TRUE
    /\ startAudioInput(a)
    /\ lastOp' = "other"
    /\ UNCHANGED <<session, inputAudioContext, outputAudioContext, nextStartTime,
                   scheduledSources, videoInterval, videoCanvas,
                   closeQueued, closeCalls, devices, playback, toolBatches, caller,
                   lastMsg, lastCaptions, pcm, lastFrame, app, speech>>

\* onopen of the channel of attempt a.
OnOpen(a) ==
    /\ Idle
    /\ a \in DOMAIN attempts
    /\ attempts[a].ch = "opening"
    /\ attempts' = [attempts EXCEPT ![a].ch = "open", ![a].opened = TRUE]
    /\ onStateChange(a, CONNECTED)
    /\ active' = TRUE
    /\ startAudioInput(a)
    /\ lastOp' = "other"
    /\ UNCHANGED <<session, inputAudioContext, outputAudioContext, nextStartTime,
                   scheduledSources, videoInterval, videoCanvas,
                   closeQueued, closeCalls, devices, playback, toolBatches,
                   lastMsg, lastCaptions, pcm, lastFrame, app, speech>>

\* onclose of the channel of attempt a (a close the server or stop() asked for,
\* or a handshake that ended without an open).
OnClose(a) ==
    /\ Idle
    /\ a \in DOMAIN attempts
    /\ attempts[a].ch \in {"opening", "open", "errored"}
    /\ attempts' = [attempts EXCEPT ![a].ch = IF attempts[a].opened THEN "closed" ELSE "failed"]
    /\ onStateChange(a, DISCONNECTED)
    /\ stop
    /\ lastOp' = "onclose"
    /\ stopFrame

\* onerror of the channel of attempt a; a channel that has failed delivers
\* nothing more but its close.
OnError(a) ==
    /\ Idle
    /\ a \in DOMAIN attempts
    /\ attempts[a].ch \in {"opening", "open"}
    /\ attempts' = [attempts EXCEPT ![a].ch = "errored"]
    /\ onStateChange(a, ERROR)
    /\ stop
    /\ lastOp' = "onerror"
    /\ stopFrame

\* The promise live.connect returned for attempt a rejects before any channel
\* callback has fired. connect() did not await it and attached no handler:
\* nothing runs, and a close chained on it by stop() never does.
ConnectRejected(a) ==
    /\ Idle
    /\ a \in DOMAIN attempts
    /\ attempts[a].ch = "opening"
    /\ attempts[a].promise = "pending"
    /\ attempts' = [attempts EXCEPT ![a].ch = "failed", ![a].promise = "rejected"]
    /\ closeQueued' = [closeQueued EXCEPT ![a] = 0]
    /\ lastOp' = "other"
    /\ UNCHANGED <<fields, closeCalls, devices, playback, toolBatches, caller,
                   lastMsg, lastCaptions, pcm, lastFrame, app, speech>>

\* onclose of a channel that has opened or has reported its error: a browser
\* WebSocket that fails before opening fires error, then close.
ChannelClosed(a) ==
    /\ a \in DOMAIN attempts
    /\ attempts[a].ch # "opening"
    /\ OnClose(a)

\* The session promise of attempt a settles; a close chained on it by stop()
\* while it was pending runs now.
SessionSettle(a) ==
    /\ Idle
    /\ a \in DOMAIN attempts
    /\ attempts[a].promise = "pending"
    /\ attempts[a].opened \/ attempts[a].ch = "failed"
    /\ IF ~attempts[a].opened
       THEN /\ attempts' = [attempts EXCEPT ![a].promise = "rejected"]
            /\ UNCHANGED closeCalls
       ELSE /\ attempts' = [attempts EXCEPT ![a].promise = "resolved"]
            /\ closeCalls' = [closeCalls EXCEPT ![a] = @ + closeQueued[a]]
    /\ closeQueued' = [closeQueued EXCEPT ![a] = 0]
    /\ lastOp' = "other"
    /\ UNCHANGED <<fields, devices, playback, toolBatches, caller, lastMsg, lastCaptions, pcm, lastFrame, app, speech>>

\* ---------------------------------------------------------------- video
\* A startVideoStream() without its guard.
startVideoStream_NoGuard ==
    /\ Idle
    /\ lastOp' = "startVideo"
    /\ videoCanvas' = 1
    /\ videoInterval' = 1
    /\ videoTimers' = videoTimers + 1
    /\ UNCHANGED <<active, session, inputAudioContext, outputAudioContext, inputSource,
                   processor, nextStartTime, scheduledSources,
                   channel, closedIn, closedOut, disconnected,
                   playback, toolBatches, caller, lastMsg, lastCaptions, pcm, lastFrame, app, speech>>

\* startVideoStream(videoElement): registers the sampling timer.
startVideoStream ==
    /\ Idle
    /\ lastOp' = "startVideo"
    /\ IF session = NULL \/ videoInterval # NULL
       THEN UNCHANGED <<videoInterval, videoCanvas, videoTimers>>
       ELSE /\ videoCanvas' = 1
            /\ videoInterval' = 1
            /\ videoTimers' = videoTimers + 1
    /\ UNCHANGED <<active, session, inputAudioContext, outputAudioContext, inputSource,
                   processor, nextStartTime, scheduledSources,
                   channel, closedIn, closedOut, disconnected,
                   playback, toolBatches, caller, lastMsg, lastCaptions, pcm, lastFrame, app, speech>>

\* A stopVideoStream() call by the App (toggleCamera).
StopVideoCall ==
    /\ Idle
    /\ stopVideoStream
    /\ lastOp' = "other"
    /\ UNCHANGED <<active, session, inputAudioContext, outputAudioContext, inputSource,
                   processor, nextStartTime, scheduledSources,
                   channel, closedIn, closedOut, disconnected,
                   playback, toolBatches, caller, lastMsg, lastCaptions, pcm, lastFrame, app, speech>>

\* ---------------------------------------------------------------- server messages
\* A LiveServerMessage, by what handleMessage reads of it: the inline audio of
\* the first part (absent, well-formed with its duration, not base64, or not
\* whole 16-bit samples), the interruption flag, the two transcriptions
\* ("absent", empty or a text), turnComplete and the function calls.
Msg(audio, dur, interrupted, inText, outText, turnComplete, tool) ==
    [audio |-> audio, dur |-> dur, interrupted |-> interrupted, inText |-> inText,
     outText |-> outText, turnComplete |-> turnComplete, tool |-> tool]

AudioParts == {<<"none", 0>>} \cup {<<"ok", d>> : d \in 1..MaxDur}

\* Messages of a model turn: audio of any duration or none, interrupted or not.
PlayMessages ==
    {Msg(p[1], p[2], i, "absent", "absent", FALSE, <<>>) :
        p \in AudioParts, i \in BOOLEAN}

\* One message of each kind.
SessionMessages ==
    {Msg("ok", 1, FALSE, "absent", "absent", FALSE, <<>>),
     Msg("none", 0, TRUE, "absent", "absent", FALSE, <<>>),
     Msg("none", 0, FALSE, "hello", "", TRUE, <<>>),
     Msg("badPcm", 0, FALSE, "absent", "hi", FALSE, <<>>),
     Msg("badB64", 0, FALSE, "absent", "absent", FALSE, <<>>)}

\* Messages with every combination of audio, interruption, the two
\* transcriptions (absent, empty, a text), turnComplete and a tool call.
CaptionMessages ==
    {Msg(audio, 1, i, inText, outText, tc, tool) :
        audio \in {"none", "ok"}, i \in BOOLEAN, inText \in {"absent", "", "hello"},
        outText \in {"absent", "", "hi"}, tc \in BOOLEAN,
        tool \in {<<>>, <<[id |-> "c1", name |-> OPEN_URL,
                          args |-> [task |-> "", delay_minutes |-> 0,
                                    url |-> "http://a", query |-> ""]]>>}}

ToolCalls ==
    {[id |-> "c1", name |-> SET_REMINDER,
      args |-> [task |-> "call mom", delay_minutes |-> 5, url |-> "", query |-> ""]],
     [id |-> "c2", name |-> OPEN_URL,
      args |-> [task |-> "", delay_minutes |-> 0, url |-> "http://a", query |-> ""]],
     [id |-> "c3", name |-> SET_REMINDER,
      args |-> [task |-> "nap", delay_minutes |-> 0, url |-> "", query |-> ""]]}

\* A batch of function calls: each call has an id of its own.
Batches ==
    {b \in UNION {[1..k -> ToolCalls] : k \in 1..MaxBatch} :
        \A i, j \in DOMAIN b : i # j => b[i].id # b[j].id}

ToolMessages == {Msg("none", 0, FALSE, "absent", "absent", FALSE, b) : b \in Batches}

\* ---------------------------------------------------------------- playback
\* A scheduler that starts every chunk at the device clock.
ScheduleStart_Now(cursor, currentTime) == currentTime

\* A scheduler that never resets a cursor the clock has passed.
ScheduleStart_Cursor(cursor, currentTime) == cursor

\* playAudioChunk, the cursor: a cursor behind the device clock is reset to it.
ScheduleStart(cursor, currentTime) ==
    IF cursor < currentTime THEN currentTime ELSE cursor

\* playAudioChunk(base64Audio) up to its await: nothing without an output
\* context, nothing (the catch) on a payload atob rejects; otherwise the rest of
\* the function is queued as a microtask.
playAudioChunk(m) ==
    IF m.audio \in {"ok", "badPcm"} /\ outputAudioContext # NULL
    THEN <<[kind |-> m.audio, dur |-> m.dur]>>
    ELSE <<>>

\* Captions that are all marked complete, whatever turnComplete says.
captions_AlwaysComplete(m) ==
    (IF m.interrupted
     THEN <<[text |-> "[Interrupted]", isUser |-> FALSE, isComplete |-> TRUE]>>
     ELSE <<>>)
    \o (IF m.inText \notin {"absent", ""}
        THEN <<[text |-> m.inText, isUser |-> TRUE, isComplete |-> TRUE]>>
        ELSE <<>>)
    \o (IF m.outText \notin {"absent", ""}
        THEN <<[text |-> m.outText, isUser |-> FALSE, isComplete |-> TRUE]>>
        ELSE <<>>)

\* The captions handleMessage emits for m, in order.
captions(m) ==
    (IF m.interrupted
     THEN <<[text |-> "[Interrupted]", isUser |-> FALSE, isComplete |-> TRUE]>>
     ELSE <<>>)
    \o (IF m.inText \notin {"absent", ""}
        THEN <<[text |-> m.inText, isUser |-> TRUE, isComplete |-> m.turnComplete]>>
        ELSE <<>>)
    \o (IF m.outText \notin {"absent", ""}
        THEN <<[text |-> m.outText, isUser |-> FALSE, isComplete |-> m.turnComplete]>>
        ELSE <<>>)

\* The tool calls received so far.
RECURSIVE CallCount(_)
CallCount(bs) == IF bs = <<>> THEN 0 ELSE Len(bs[1].calls) + CallCount(Tail(bs))

Received == CallCount(toolBatches)

\* The dispatcher config.onToolCall of this session: the App's, or another.
Dispatchers == IF toolBatches = <<>> THEN {"app", "other"} ELSE {toolBatches[1].by}

\* handleMessage(message, sessionPromise) for a message on the channel of
\* attempt a, up to its first await: the audio hand-off, the interruption, the
\* captions, and the call of the dispatcher.
HandleMessage(a, m) ==
    /\ Idle
    /\ a \in DOMAIN attempts
    /\ attempts[a].ch = "open"
    /\ m.audio = "ok" => Len(chunks) < MaxChunks
    /\ m.tool # <<>> => Received + Len(m.tool) <= MaxCalls
    /\ microtask' = playAudioChunk(m)
    /\ IF m.interrupted
       THEN stopAudioPlayback
       ELSE UNCHANGED <<chunks, scheduledSources, nextStartTime, flushedSince>>
    /\ lastCaptions' = captions(m)
    /\ firsts' = IF captions(m) # <<>> THEN Note(firsts, "caption") ELSE firsts
    /\ IF m.tool # <<>>
       THEN \E d \in Dispatchers :
                toolBatches' = Append(toolBatches,
                    [a |-> a, calls |-> m.tool, by |-> d, stage |-> "dispatching",
                     results |-> <<>>, ready |-> 0, sent |-> <<>>, live |-> FALSE])
       ELSE UNCHANGED toolBatches
    /\ lastMsg' = <<m>>
    /\ lastOp' = "handleMessage"
    /\ UNCHANGED <<active, session, inputAudioContext, outputAudioContext, inputSource,
                   processor, videoInterval, videoCanvas, channel, devices,
                   clock, resetTimers, reports, lastReported, liveState, pcm, lastFrame, app, speech>>

\* A playAudioChunk whose continuation schedules whatever buffer it got.
PlayContinuation_NoCatch ==
    /\ microtask # <<>>
    /\ chunks' = Append(chunks,
           [start |-> ScheduleStart(nextStartTime, clock),
            dur |-> microtask[1].dur, now |-> clock, cursor |-> nextStartTime,
            fresh |-> flushedSince, stopped |-> FALSE, ended |-> FALSE])
    /\ nextStartTime' = ScheduleStart(nextStartTime, clock) + microtask[1].dur
    /\ scheduledSources' = scheduledSources \cup {Len(chunks) + 1}
    /\ flushedSince' = FALSE
    /\ resetTimers' = resetTimers \cup {Len(chunks) + 1}
    /\ firsts' = Note(firsts, "volume")
    /\ microtask' = <<>>
    /\ lastOp' = "playContinuation"
    /\ UNCHANGED <<active, session, inputAudioContext, outputAudioContext, inputSource,
                   processor, videoInterval, videoCanvas, channel, devices,
                   clock, toolBatches, reports, lastReported, liveState,
                   lastMsg, lastCaptions, pcm, lastFrame, app, speech>>

\* playAudioChunk after its await: the source is scheduled at the cursor, the
\* cursor advances, the source is tracked, the volume callback fires and the
\* reset timer is armed; a buffer that could not be built is dropped.
PlayContinuation ==
    /\ microtask # <<>>
    /\ IF microtask[1].kind = "badPcm"
       THEN UNCHANGED <<chunks, scheduledSources, nextStartTime, flushedSince,
                        resetTimers, firsts>>
       ELSE /\ chunks' = Append(chunks,
                   [start |-> ScheduleStart(nextStartTime, clock),
                    dur |-> microtask[1].dur, now |-> clock, cursor |-> nextStartTime,
                    fresh |-> flushedSince, stopped |-> FALSE, ended |-> FALSE])
            /\ nextStartTime' = ScheduleStart(nextStartTime, clock) + microtask[1].dur
            /\ scheduledSources' = scheduledSources \cup {Len(chunks) + 1}
            /\ flushedSince' = FALSE
            /\ resetTimers' = resetTimers \cup {Len(chunks) + 1}
            /\ firsts' = Note(firsts, "volume")
    /\ microtask' = <<>>
    /\ lastOp' = "playContinuation"
    /\ UNCHANGED <<active, session, inputAudioContext, outputAudioContext, inputSource,
                   processor, videoInterval, videoCanvas, channel, devices,
                   clock, toolBatches, reports, lastReported, liveState,
                   lastMsg, lastCaptions, pcm, lastFrame, app, speech>>

\* The output device clock advances.
Tick ==
    /\ Idle
    /\ outputAudioContext # NULL
    /\ clock < MaxClock
    /\ clock' = clock + 1
    /\ UNCHANGED <<fields, channel, devices, chunks, microtask, resetTimers,
                   flushedSince, toolBatches, caller, trace, pcm, lastFrame, app, speech>>

\* source.onended of chunk c: the source has played to its end, or was stopped.
ChunkEnded(c) ==
    /\ Idle
    /\ c \in DOMAIN chunks
    /\ ~chunks[c].ended
    /\ chunks[c].stopped \/ clock >= chunks[c].start + chunks[c].dur
    /\ chunks' = [chunks EXCEPT ![c].ended = TRUE]
    /\ scheduledSources' = scheduledSources \ {c}
    /\ lastOp' = "other"
    /\ UNCHANGED <<active, session, inputAudioContext, outputAudioContext, inputSource,
                   processor, nextStartTime, videoInterval, videoCanvas, channel, devices,
                   clock, microtask, resetTimers, flushedSince, toolBatches, caller,
                   lastMsg, lastCaptions, pcm, lastFrame, app, speech>>

\* The timer playAudioChunk armed for chunk c fires: onVolumeChange(0, 0).
VolumeReset(c) ==
    /\ Idle
    /\ c \in resetTimers
    /\ resetTimers' = resetTimers \ {c}
    /\ firsts' = Note(firsts, "volume")
    /\ lastOp' = "other"
    /\ UNCHANGED <<fields, channel, devices, clock, chunks, microtask, flushedSince,
                   toolBatches, reports, lastReported, liveState, lastMsg, lastCaptions, pcm, lastFrame, app, speech>>

\* The same timer against the device clock: setTimeout(duration) was armed when
\* the chunk was enqueued, so it fires once that long has passed since then.
VolumeResetDue(c) ==
    /\ c \in resetTimers
    /\ clock >= chunks[c].now + chunks[c].dur
    /\ VolumeReset(c)

\* ---------------------------------------------------------------- capture and video
\* What a frame callback did: whether the session was active, whether the video
\* had dimensions, the volume callbacks and sends it issued, the data it sent,
\* whether its send then threw, and whether the frame before it had a send throw.
Frame(kind, ready, n, data, ok) ==
    [kind |-> kind, active |-> active, ready |-> ready, volume |-> IF kind = "audio" THEN n ELSE 0,
     sends |-> n, data |-> data, failed |-> (n > 0 /\ ~ok),
     afterFailure |-> (lastFrame # <<>> /\ lastFrame.failed)]

\* An onaudioprocess without its active check.
onaudioprocess_NoActiveCheck(ok) == Frame("audio", TRUE, 1, "pcm", ok)

\* processor.onaudioprocess: nothing unless the session is active; otherwise
\* onVolumeChange(rms, 0) once and one send chained on the session promise. The
\* send runs later in a then-callback of its own: if it throws (ok = FALSE) the
\* rejection stays in that chain.
onaudioprocess(ok) ==
    IF ~active THEN Frame("audio", TRUE, 0, "", TRUE) ELSE Frame("audio", TRUE, 1, "pcm", ok)

\* A microphone frame is delivered: by the live processor, or one the processor
\* had queued before stop() disconnected it.
MicFrame(ok) ==
    /\ Idle
    /\ processor # NULL \/ \E d \in disconnected : d[1] = "processor"
    /\ lastFrame' = onaudioprocess(ok)
    /\ firsts' = IF lastFrame'.volume > 0 THEN Note(firsts, "volume") ELSE firsts
    /\ lastOp' = "other"
    /\ UNCHANGED <<fields, channel, devices, playback, toolBatches,
                   reports, lastReported, liveState, lastMsg, lastCaptions, pcm, app, speech>>

\* The interval callback of startVideoStream: nothing unless the session is
\* active and the canvas exists; otherwise the canvas takes half the video's
\* dimensions, the frame is drawn and one send is chained on the session promise.
\* A video without dimensions yet (ready = FALSE) gives an empty canvas, whose
\* data URL is "data:," and whose payload is the empty string.
videoTick(ready, ok) ==
    IF ~active \/ videoCanvas = NULL
    THEN Frame("video", ready, 0, "", TRUE)
    ELSE Frame("video", ready, 1, IF ready THEN "jpeg" ELSE "", ok)

\* A registered sampling timer fires.
VideoTick(ready, ok) ==
    /\ Idle
    /\ videoTimers > 0
    /\ lastFrame' = videoTick(ready, ok)
    /\ lastOp' = "other"
    /\ UNCHANGED <<fields, channel, devices, playback, toolBatches, caller,
                   lastMsg, lastCaptions, pcm, app, speech>>

\* ---------------------------------------------------------------- tool calls
\* App.handleToolAction, SET_REMINDER: with a task and a delay the reminder is
\* appended, its id the decimal string of Date.now().
setReminder(rs, name, args, now) ==
    IF name = SET_REMINDER /\ args.task # "" /\ args.delay_minutes # 0
    THEN Append(rs, [id |-> ToString(now), text |-> args.task,
                     dueTime |-> now + args.delay_minutes * MsPerMinute,
                     completed |-> FALSE])
    ELSE rs

\* The App's onToolCall loop over the calls from index i on, started at
\* millisecond now: the reminder list it leaves. late holds the indexes of the
\* calls before which the clock has moved on by a millisecond.
RECURSIVE AddReminders(_, _, _, _, _)
AddReminders(rs, calls, i, now, late) ==
    IF i > Len(calls) THEN rs
    ELSE LET t == IF i \in late THEN now + 1 ELSE now
         IN  AddReminders(setReminder(rs, calls[i].name, calls[i].args, t),
                          calls, i + 1, t, late)

\* App.handleToolAction(name, args): the string it returns.
handleToolAction(name, args) ==
    CASE name = OPEN_URL /\ args.url # "" -> "Opened " \o args.url
      [] name = SEARCH_YOUTUBE /\ args.query # "" -> "Searched for " \o args.query
      [] name = SET_REMINDER /\ args.task # "" /\ args.delay_minutes # 0
            -> "Reminder set for " \o args.task
      [] OTHER -> "done"

\* The App's onToolCall: one result per call, in the order of the calls.
AppResults(calls) ==
    [i \in DOMAIN calls |-> handleToolAction(calls[i].name, calls[i].args)]

\* What another dispatcher may resolve to for k calls: an array of any length,
\* here of results that differ from one index to the next.
OtherResults(k) == {[i \in 1..n |-> "r" \o ToString(i)] : n \in 0..(k + 1)}

\* Response entries that answer "done" whatever the dispatcher returned.
functionResponses_Done(toolCalls, results) ==
    [index \in DOMAIN results |->
        [id |-> toolCalls[index].id,
         name |-> toolCalls[index].name,
         response |-> [result |-> "done"]]]

\* handleMessage: the response entries built from the results.
functionResponses(toolCalls, results) ==
    [index \in DOMAIN results |->
        [id |-> toolCalls[index].id,
         name |-> toolCalls[index].name,
         response |-> [result |-> results[index]]]]

\* The dispatcher's promise for batch b resolves with results r; handleMessage
\* resumes and awaits the session promise, behind the batches already waiting.
ToolDispatched(b, r) ==
    /\ b \in DOMAIN toolBatches
    /\ toolBatches[b].stage = "dispatching"
    /\ IF toolBatches[b].by = "app"
       THEN microtask = <<>> /\ r = AppResults(toolBatches[b].calls)
       ELSE Idle /\ r \in OtherResults(Len(toolBatches[b].calls))
    /\ toolBatches' = [toolBatches EXCEPT
            ![b].stage = "awaitSession",
            ![b].results = r,
            ![b].ready = 1 + Cardinality({x \in DOMAIN toolBatches : toolBatches[x].ready > 0})]
    /\ reminders' = IF toolBatches[b].by = "app"
                    THEN AddReminders(reminders, toolBatches[b].calls, 1, dateNow, {})
                    ELSE reminders
    /\ lastOp' = "other"
    /\ UNCHANGED <<fields, channel, devices, playback, caller, lastMsg, lastCaptions, pcm,
                   lastFrame, dateNow, speech>>

\* The promise of a dispatcher other than the App's rejects: handleMessage
\* rejects with it and sends nothing.
ToolRejected(b) ==
    /\ Idle
    /\ b \in DOMAIN toolBatches
    /\ toolBatches[b].stage = "dispatching"
    /\ toolBatches[b].by = "other"
    /\ toolBatches' = [toolBatches EXCEPT ![b].stage = "failed"]
    /\ lastOp' = "other"
    /\ UNCHANGED <<fields, channel, devices, playback, caller, lastMsg, lastCaptions, pcm, lastFrame, app, speech>>

\* handleMessage after `await sessionPromise`: the entries are built and
\* session.sendToolResponse is called, whether or not stop() has run since (live
\* records whether the session still held its reference); a rejected session
\* promise, or a result with no call at its index, throws instead.
ToolSend(b) ==
    /\ microtask = <<>>
    /\ b \in DOMAIN toolBatches
    /\ Sending(b)
    /\ \A x \in DOMAIN toolBatches :
          (x # b /\ Sending(x)) => toolBatches[x].ready > toolBatches[b].ready
    /\ IF attempts[toolBatches[b].a].promise = "rejected"
          \/ Len(toolBatches[b].results) > Len(toolBatches[b].calls)
       THEN toolBatches' = [toolBatches EXCEPT ![b].stage = "failed"]
       ELSE toolBatches' = [toolBatches EXCEPT
                ![b].stage = "sent",
                ![b].sent = functionResponses(toolBatches[b].calls, toolBatches[b].results),
                ![b].live = (session = toolBatches[b].a)]
    /\ lastOp' = "other"
    /\ UNCHANGED <<fields, channel, devices, playback, caller, lastMsg, lastCaptions, pcm, lastFrame, app, speech>>

\* Every result array a dispatcher of the model resolves to.
Results == OtherResults(MaxBatch) \cup {AppResults(b) : b \in Batches}

\* ---------------------------------------------------------------- reminders
\* The tool calls the App is handed: those above and a second valid reminder.
AppCalls ==
    ToolCalls \cup
    {[id |-> "c4", name |-> SET_REMINDER,
      args |-> [task |-> "stretch", delay_minutes |-> 10, url |-> "", query |-> ""]]}

AppBatches ==
    {b \in UNION {[1..k -> AppCalls] : k \in 1..MaxBatch} :
        \A i, j \in DOMAIN b : i # j => b[i].id # b[j].id}

AppFrame ==
    UNCHANGED <<fields, channel, devices, playback, toolBatches, caller, trace, pcm,
                lastFrame, speech>>

\* The App's onToolCall(toolCalls): handleToolAction on each call in turn. The
\* loop awaits nothing but resolved promises, so the clock moves on during it
\* only if a millisecond boundary falls inside it.
OnToolCall(calls, late) ==
    /\ late \subseteq DOMAIN calls
    /\ dateNow + Cardinality(late) <= MaxMs
    /\ Len(reminders) + Len(calls) <= MaxReminders
    /\ reminders' = AddReminders(reminders, calls, 1, dateNow, late)
    /\ dateNow' = dateNow + Cardinality(late)
    /\ AppFrame

\* A millisecond passes.
Millisecond ==
    /\ dateNow < MaxMs
    /\ dateNow' = dateNow + 1
    /\ UNCHANGED reminders
    /\ AppFrame

\* ReminderList onRemove(id): the entries with that id are filtered out.
RemoveReminder(id) ==
    /\ \E i \in DOMAIN reminders : reminders[i].id = id
    /\ reminders' = SelectSeq(reminders, LAMBDA r : r.id # id)
    /\ UNCHANGED dateNow
    /\ AppFrame

\* ---------------------------------------------------------------- PCM16 conversions
\* A float sample is the exact rational n / SampleDen, held as its numerator n;
\* the products below are exact in the doubles the code computes with.
Samples == (0 - 2 * SampleDen)..(2 * SampleDen)

Frames == UNION {[1..k -> Samples] : k \in 1..MaxFrame}

\* Math.max(-1, Math.min(1, x)) on numerators.
Clamp(n) == IF n < 0 - SampleDen THEN 0 - SampleDen ELSE IF n > SampleDen THEN SampleDen ELSE n

\* The integer part of p / q (q > 0), towards zero: what ToInt16 keeps of a number.
Trunc(p, q) == IF p >= 0 THEN p \div q ELSE 0 - ((0 - p) \div q)

\* DataView.setInt16: the integer modulo 2^16, read as a signed 16-bit value.
ToInt16(x) == ((x + 32768) % 65536) - 32768

\* A float sample stored unclamped.
EncodeSample_NoClamp(n) ==
    ToInt16(IF n < 0 THEN Trunc(n * NegScale, SampleDen) ELSE Trunc(n * PosScale, SampleDen))

\* floatTo16BitPCM, one sample: clamp, scale by sign, store as int16.
EncodeSample(n) ==
    ToInt16(IF Clamp(n) < 0
            THEN Trunc(Clamp(n) * NegScale, SampleDen)
            ELSE Trunc(Clamp(n) * PosScale, SampleDen))

\* floatTo16BitPCM(float32Array)
floatTo16BitPCM(frame) == [i \in DOMAIN frame |-> EncodeSample(frame[i])]

\* pcmToAudioBuffer(arrayBuffer): sample i is int16[i] / 32768, held as the
\* numerator over DecodeScale.
pcmToAudioBuffer(int16s) == [i \in DOMAIN int16s |-> [num |-> int16s[i], den |-> DecodeScale]]

\* A frame of float samples to convert.
InitPcm ==
    /\ InitSession
    /\ \E f \in Frames : pcm = [stage |-> "float", frame |-> f, int16 |-> <<>>, back |-> <<>>]

PcmFrame ==
    UNCHANGED <<fields, channel, devices, playback, toolBatches, caller, trace,
                lastFrame, app, speech>>

\* The frame is encoded.
Encode ==
    /\ pcm.stage = "float"
    /\ pcm' = [pcm EXCEPT !.stage = "int16", !.int16 = floatTo16BitPCM(pcm.frame)]
    /\ PcmFrame

\* The encoded frame is decoded.
Decode ==
    /\ pcm.stage = "int16"
    /\ pcm' = [pcm EXCEPT !.stage = "back", !.back = pcmToAudioBuffer(pcm.int16)]
    /\ PcmFrame

\* ---------------------------------------------------------------- speech hook
\* The recognizer is idle, started with its start event still to come
\* ("starting"), listening, asked to stop, or ending after an error; start() on a
\* recognizer that is not idle throws InvalidStateError. speechLog records what
\* the hook did last: the operation, the state the recognizer was in, the error
\* event if any, and whether console.error was called.
SpeechErrors == {"no-speech", "aborted", "network", "not-allowed"}

Did(op, error, logged) == [op |-> op, on |-> recognition, error |-> error, logged |-> logged]

SpeechFrame ==
    UNCHANGED <<fields, channel, devices, playback, toolBatches, caller, trace, pcm,
                lastFrame, app>>

\* What the recognition handlers leave alone.
ListeningFrame == UNCHANGED <<isSpeaking, utterance>> /\ SpeechFrame

\* A startListening() that calls start() whatever isListening says.
startListening_NoGuard ==
    /\ transcript' = ""
    /\ recognition' = IF recognition = "idle" THEN "starting" ELSE recognition
    /\ speechLog' = Did("start", "", recognition # "idle")
    /\ UNCHANGED isListening
    /\ ListeningFrame

\* startListening(): start() unless isListening; a throw of start() is caught
\* and logged.
startListening ==
    /\ IF ~isListening
       THEN /\ transcript' = ""
            /\ recognition' = IF recognition = "idle" THEN "starting" ELSE recognition
            /\ speechLog' = Did("start", "", recognition # "idle")
       ELSE /\ speechLog' = Did("startNoOp", "", FALSE)
            /\ UNCHANGED <<recognition, transcript>>
    /\ UNCHANGED isListening
    /\ ListeningFrame

\* stopListening(): stop() if isListening.
stopListening ==
    /\ IF isListening
       THEN /\ recognition' = IF recognition = "listening" THEN "stopping" ELSE recognition
            /\ speechLog' = Did("stop", "", FALSE)
       ELSE /\ speechLog' = Did("stopNoOp", "", FALSE)
            /\ UNCHANGED recognition
    /\ UNCHANGED <<isListening, transcript>>
    /\ ListeningFrame

\* recognition.onstart
RecognitionStart ==
    /\ recognition = "starting"
    /\ recognition' = "listening"
    /\ isListening' = TRUE
    /\ speechLog' = Did("onstart", "", FALSE)
    /\ UNCHANGED transcript
    /\ ListeningFrame

\* recognition.onresult with the final and interim text of its results: the
\* transcript is the final text if there is any, the interim text otherwise.
RecognitionResult(finalTranscript, interimTranscript) ==
    /\ recognition \in {"listening", "stopping"}
    /\ transcript' = IF finalTranscript # "" THEN finalTranscript ELSE interimTranscript
    /\ speechLog' = Did("onresult", "", FALSE)
    /\ UNCHANGED <<isListening, recognition>>
    /\ ListeningFrame

\* recognition.onerror: isListening goes false; "no-speech" and "aborted" return
\* before console.error. The recognizer's end event is still to come.
RecognitionError(e) ==
    /\ recognition \in {"starting", "listening", "stopping"}
    /\ recognition' = "ending"
    /\ isListening' = FALSE
    /\ speechLog' = Did("onerror", e, e \notin {"no-speech", "aborted"})
    /\ UNCHANGED transcript
    /\ ListeningFrame

\* recognition.onend
RecognitionEnd ==
    /\ recognition # "idle"
    /\ recognition' = "idle"
    /\ isListening' = FALSE
    /\ speechLog' = Did("onend", "", FALSE)
    /\ UNCHANGED transcript
    /\ ListeningFrame

\* speak(text): cancels the current utterance, whose end event resets
\* isSpeaking, and queues a new one.
speak ==
    /\ utterance' = "queued"
    /\ isSpeaking' = FALSE
    /\ speechLog' = Did("speak", "", FALSE)
    /\ UNCHANGED listening
    /\ SpeechFrame

\* utterance.onstart
UtteranceStart ==
    /\ utterance = "queued"
    /\ utterance' = "speaking"
    /\ isSpeaking' = TRUE
    /\ speechLog' = Did("utteranceStart", "", FALSE)
    /\ UNCHANGED listening
    /\ SpeechFrame

\* utterance.onend or utterance.onerror
UtteranceEnd ==
    /\ utterance # "none"
    /\ utterance' = "none"
    /\ isSpeaking' = FALSE
    /\ speechLog' = Did("utteranceEnd", "", FALSE)
    /\ UNCHANGED listening
    /\ SpeechFrame

\* cancelSpeech()
cancelSpeech ==
    /\ utterance' = "none"
    /\ isSpeaking' = FALSE
    /\ speechLog' = Did("cancelSpeech", "", FALSE)
    /\ UNCHANGED listening
    /\ SpeechFrame

\* The first connect() call on the session.
FirstConnect == attempts = <<>> /\ connect

\* ---------------------------------------------------------------- specification
Next ==
    \/ connect
    \/ \E a \in Attempts : MicGranted(a)
    \/ \E a \in Attempts : MicDenied(a)
    \/ \E a \in Attempts : OnOpen(a)
    \/ \E a \in Attempts : OnClose(a)
    \/ \E a \in Attempts : OnError(a)
    \/ \E a \in Attempts : SessionSettle(a)
    \/ stopLiveSession
    \/ startVideoStream
    \/ StopVideoCall

\* Any connect(), stop() and video calls against any behaviour of the microphone
\* prompt and of the channels.
Spec == Init /\ [][Next]_vars

\* One connection attempt, with the messages, microphone frames and playback of
\* its channel.
NextSession ==
    \/ FirstConnect
    \/ \E a \in Attempts : MicGranted(a)
    \/ \E a \in Attempts : MicDenied(a)
    \/ \E a \in Attempts : OnOpen(a)
    \/ \E a \in Attempts : OnClose(a)
    \/ \E a \in Attempts : OnError(a)
    \/ \E a \in Attempts : SessionSettle(a)
    \/ stopLiveSession
    \/ startVideoStream
    \/ StopVideoCall
    \/ \E a \in Attempts, m \in SessionMessages : HandleMessage(a, m)
    \/ PlayContinuation
    \/ \E c \in 1..MaxChunks : VolumeReset(c)
    \/ \E ok \in BOOLEAN : MicFrame(ok)

SpecSession == Init /\ [][NextSession]_vars

\* A session that stays connected: the playback scheduler against the device clock.
NextPlay ==
    \/ FirstConnect
    \/ \E a \in Attempts : MicGranted(a)
    \/ \E a \in Attempts : OnOpen(a)
    \/ \E a \in Attempts, m \in PlayMessages : HandleMessage(a, m)
    \/ PlayContinuation
    \/ Tick
    \/ \E c \in 1..MaxChunks : ChunkEnded(c)

SpecPlay == Init /\ [][NextPlay]_vars

\* The playback scheduler with the volume-reset timers of its chunks.
NextVolume ==
    \/ FirstConnect
    \/ \E a \in Attempts : MicGranted(a)
    \/ \E a \in Attempts : OnOpen(a)
    \/ \E a \in Attempts, m \in PlayMessages : HandleMessage(a, m)
    \/ PlayContinuation
    \/ Tick
    \/ \E c \in 1..MaxChunks : ChunkEnded(c)
    \/ \E c \in 1..MaxChunks : VolumeResetDue(c)

SpecVolume == Init /\ [][NextVolume]_vars

\* One connected session and every shape of message handleMessage reads.
NextCaptions ==
    \/ FirstConnect
    \/ \E a \in Attempts : MicGranted(a)
    \/ \E a \in Attempts : OnOpen(a)
    \/ \E a \in Attempts, m \in CaptionMessages : HandleMessage(a, m)
    \/ PlayContinuation

SpecCaptions == Init /\ [][NextCaptions]_vars

\* One connection attempt and the tool-call batches of its channel.
NextTools ==
    \/ FirstConnect
    \/ \E a \in Attempts : MicGranted(a)
    \/ \E a \in Attempts : OnOpen(a)
    \/ \E a \in Attempts : SessionSettle(a)
    \/ stopLiveSession
    \/ \E a \in Attempts, m \in ToolMessages : HandleMessage(a, m)
    \/ \E b \in 1..MaxCalls : \E r \in Results : ToolDispatched(b, r)
    \/ \E b \in 1..MaxCalls : ToolRejected(b)
    \/ \E b \in 1..MaxCalls : ToolSend(b)

SpecTools == Init /\ [][NextTools]_vars

\* connect() and stop() against every way the channel open can end: it opens,
\* its socket fails (error, then close), or the promise of live.connect rejects.
NextConnect ==
    \/ connect
    \/ \E a \in Attempts : MicGranted(a)
    \/ \E a \in Attempts : MicDenied(a)
    \/ \E a \in Attempts : OnOpen(a)
    \/ \E a \in Attempts : OnError(a)
    \/ \E a \in Attempts : ChannelClosed(a)
    \/ \E a \in Attempts : ConnectRejected(a)
    \/ \E a \in Attempts : SessionSettle(a)
    \/ stopLiveSession

SpecConnect == Init /\ [][NextConnect]_vars

\* One connection attempt with its microphone frames and video sampler ticks.
NextMedia ==
    \/ FirstConnect
    \/ \E a \in Attempts : MicGranted(a)
    \/ \E a \in Attempts : OnOpen(a)
    \/ \E a \in Attempts : SessionSettle(a)
    \/ stopLiveSession
    \/ startVideoStream
    \/ StopVideoCall
    \/ \E ok \in BOOLEAN : MicFrame(ok)
    \/ \E ready, ok \in BOOLEAN : VideoTick(ready, ok)

SpecMedia == Init /\ [][NextMedia]_vars

\* The speech hook against its recognizer and the user's start and stop calls.
NextSpeech ==
    \/ startListening
    \/ stopListening
    \/ RecognitionStart
    \/ \E f \in {"", "play music"}, i \in {"", "play"} : RecognitionResult(f, i)
    \/ \E e \in SpeechErrors : RecognitionError(e)
    \/ RecognitionEnd
    \/ speak
    \/ UtteranceStart
    \/ UtteranceEnd
    \/ cancelSpeech

SpecSpeech == Init /\ [][NextSpeech]_vars

\* The App's reminder list against batches of tool calls and its clock.
NextApp ==
    \/ \E calls \in AppBatches : \E late \in SUBSET (1..MaxBatch) : OnToolCall(calls, late)
    \/ Millisecond
    \/ \E t \in 0..MaxMs : RemoveReminder(ToString(t))

SpecApp == Init /\ [][NextApp]_vars

\* The PCM16 conversions on every frame of samples.
NextPcm == Encode \/ Decode

SpecPcm == InitPcm /\ [][NextPcm]_vars

\* ---------------------------------------------------------------- properties
Max(x, y) == IF x < y THEN y ELSE x

\* Position of the first x in s.
Pos(x, s) == CHOOSE i \in DOMAIN s : s[i] = x

\* The operations that run stop().
StopOps == {"stop", "stopAgain", "onclose", "onerror", "connectCatch"}

InterruptedCaption == [text |-> "[Interrupted]", isUser |-> FALSE, isComplete |-> TRUE]

\* C1: every tool-response batch passed to sendToolResponse has as many entries
\* as the tool-call batch it answers, and entry i carries the id and the name of
\* call i, whatever dispatcher is configured.
C1_ResponseMatchesRequest ==
    \A b \in DOMAIN toolBatches :
        toolBatches[b].stage = "sent" =>
            /\ Len(toolBatches[b].sent) = Len(toolBatches[b].calls)
            /\ \A i \in DOMAIN toolBatches[b].calls :
                  /\ toolBatches[b].sent[i].id = toolBatches[b].calls[i].id
                  /\ toolBatches[b].sent[i].name = toolBatches[b].calls[i].name

\* C2: once a message with the interruption flag has been handled, whatever else
\* it carries, every chunk is stopped or has ended, the in-flight set is empty,
\* the cursor is 0 and "[Interrupted]" has been emitted exactly once for it.
C2_InterruptionFlushes ==
    (/\ lastOp \in {"handleMessage", "playContinuation"}
     /\ Idle
     /\ lastMsg # <<>>
     /\ lastMsg[1].interrupted)
    => /\ scheduledSources = {}
       /\ \A c \in DOMAIN chunks : chunks[c].stopped \/ chunks[c].ended
       /\ nextStartTime = 0
       /\ Cardinality({i \in DOMAIN lastCaptions : lastCaptions[i] = InterruptedCaption}) = 1

C4_ConnectedBeforeCallbacks ==
    /\ firsts # <<>> => firsts[1] = CONNECTING
    /\ \A k \in {CONNECTED, "caption", "volume"} :
          InSeq(k, firsts) =>
              /\ InSeq(CONNECTING, firsts)
              /\ InSeq(CONNECTED, firsts)
              /\ Pos(CONNECTING, firsts) < Pos(CONNECTED, firsts)
              /\ k # CONNECTED => Pos(CONNECTED, firsts) < Pos(k, firsts)

\* connect() has succeeded and a caption and a volume callback have fired.
C4_Witness ==
    /\ \E a \in DOMAIN attempts : attempts[a].opened
    /\ InSeq("caption", firsts)
    /\ InSeq("volume", firsts)

\* C5: a chunk enqueued with no flush since the chunk before it starts at
\* max(start + duration of that chunk, device clock at enqueue): never before the
\* previous chunk's end, and exactly at it unless the clock has passed it.
C5_BackToBack ==
    \A i \in DOMAIN chunks :
        (i > 1 /\ ~chunks[i].fresh) =>
            /\ chunks[i].start = Max(chunks[i - 1].start + chunks[i - 1].dur, chunks[i].now)
            /\ chunks[i].start >= chunks[i - 1].start
            /\ chunks[i].start >= chunks[i - 1].start + chunks[i - 1].dur
            /\ chunks[i].now <= chunks[i - 1].start + chunks[i - 1].dur
                 => chunks[i].start = chunks[i - 1].start + chunks[i - 1].dur

\* A chunk was queued behind one still playing: the clock had moved, and the
\* cursor was ahead of it.
C5_Witness ==
    \E i \in DOMAIN chunks :
        /\ i > 1
        /\ ~chunks[i].fresh
        /\ chunks[i].now > 0
        /\ chunks[i].now < chunks[i - 1].start + chunks[i - 1].dur

\* C6: the first chunk enqueued after a flush starts no earlier than the device
\* clock at its enqueue.
C6_NoStaleBacklog ==
    \A i \in DOMAIN chunks : chunks[i].fresh => chunks[i].start >= chunks[i].now

\* A chunk was enqueued after a flush that stopped the chunk before it, with the
\* clock past 0 and the flushed cursor ahead of the clock.
C6_Witness ==
    \E i \in DOMAIN chunks :
        /\ i > 1
        /\ chunks[i].fresh
        /\ chunks[i - 1].stopped
        /\ chunks[i].now > 0
        /\ chunks[i - 1].start + chunks[i - 1].dur > chunks[i].now

\* C7: connect() on an active session is a no-op: nothing is reported, no
\* attempt (microphone request, audio contexts, channel) is started and no field
\* of the session changes.
C7_ConnectWhileActiveNoOp ==
    [][(active /\ lastOp' = "connect") =>
         UNCHANGED <<fields, channel, devices, playback, toolBatches, caller>>]_vars

\* connect() has just returned on an active session.
C7_Witness == active /\ lastOp = "connect" /\ liveState = CONNECTED

\* C8: right after stop() returns, from any state: the session is inactive, no
\* sampling timer is registered, the in-flight set is empty with every chunk of
\* it stopped, the cursor is 0, both audio contexts are closed and their
\* references null, processor and inputSource are disconnected and null, and
\* the session reference is null with a close requested on the channel it held.
C8_StopTearsDown ==
    [][lastOp' \in StopOps =>
         /\ ~active'
         /\ videoInterval' = NULL /\ videoCanvas' = NULL /\ videoTimers' = 0
         /\ scheduledSources' = {}
         /\ \A c \in scheduledSources : chunks'[c].stopped
         /\ nextStartTime' = 0
         /\ inputAudioContext' = NULL /\ outputAudioContext' = NULL
         /\ inputAudioContext # NULL => inputAudioContext \in closedIn'
         /\ outputAudioContext # NULL => outputAudioContext \in closedOut'
         /\ processor' = NULL /\ inputSource' = NULL
         /\ processor # NULL => <<"processor", processor>> \in disconnected'
         /\ inputSource # NULL => <<"inputSource", inputSource>> \in disconnected'
         /\ session' = NULL
         /\ (session # NULL /\ attempts[session].promise = "resolved")
              => closeCalls'[session] = closeCalls[session] + 1
         /\ (session # NULL /\ attempts[session].promise = "pending")
              => closeQueued'[session] = closeQueued[session] + 1]_vars

\* stop() has run on a connected session that had a chunk in flight: the chunk
\* is stopped, the contexts closed, the nodes disconnected, the close called.
C8_Witness ==
    /\ lastOp = "stop"
    /\ \E c \in DOMAIN chunks : chunks[c].stopped
    /\ closedIn # {} /\ closedOut # {}
    /\ <<"processor", 1>> \in disconnected
    /\ <<"inputSource", 1>> \in disconnected
    /\ closeCalls[1] > 0

\* C9: an attempt whose microphone request was denied has reported exactly
\* CONNECTING then ERROR and never had a channel; when its catch block has run,
\* the session is inactive with every reference cleared.
C9_MicDenied ==
    /\ \A a \in DOMAIN attempts :
          attempts[a].pc = "failed" =>
              /\ reports[a] = <<CONNECTING, ERROR>>
              /\ attempts[a].ch = "none"
              /\ attempts[a].promise = "none"
              /\ closeCalls[a] = 0 /\ closeQueued[a] = 0
    /\ lastOp = "connectCatch" =>
          /\ ~active
          /\ session = NULL
          /\ inputAudioContext = NULL /\ outputAudioContext = NULL
          /\ inputSource = NULL /\ processor = NULL
          /\ videoInterval = NULL /\ videoCanvas = NULL
          /\ scheduledSources = {} /\ nextStartTime = 0
          /\ lastReported = ERROR

\* The microphone request of an attempt has just been denied.
C9_Witness ==
    /\ lastOp = "connectCatch"
    /\ \E a \in DOMAIN attempts : attempts[a].pc = "failed"

\* The steps the reported state may take.
LegalStep(from, to) ==
    \/ from \in {"none", DISCONNECTED, ERROR} /\ to = CONNECTING
    \/ from = CONNECTING /\ to = CONNECTED
    \/ from = CONNECTED /\ to = DISCONNECTED
    \/ from \in {CONNECTING, CONNECTED} /\ to = ERROR

\* C10: every state a LiveSession reports follows the one reported before it by
\* a legal step; in particular CONNECTED only ever follows CONNECTING.
C10_LegalSteps ==
    [][reports' # reports => LegalStep(lastReported, lastReported')]_vars

\* C11: server messages take effect in arrival order; in particular a
\* tool-response batch is sent only when every batch that arrived before it has
\* been answered (or has failed and will never be).
C11_ResponsesInArrivalOrder ==
    \A b1, b2 \in DOMAIN toolBatches :
        (b1 < b2 /\ toolBatches[b2].stage = "sent")
            => toolBatches[b1].stage \in {"sent", "failed"}

\* C12: a session that has been stopped sends nothing more: every tool-response
\* batch was sent while the session still held its channel reference.
C12_NoSendAfterStop ==
    \A b \in DOMAIN toolBatches : toolBatches[b].stage = "sent" => toolBatches[b].live

\* C13: once handleMessage is done with a batch whose dispatcher settled, the
\* response sent holds exactly one entry for the id of each call of the batch.
C13_OneResultPerCall ==
    \A b \in DOMAIN toolBatches :
        toolBatches[b].stage \in {"sent", "failed"} =>
            \A i \in DOMAIN toolBatches[b].calls :
                Cardinality({j \in DOMAIN toolBatches[b].sent :
                    toolBatches[b].sent[j].id = toolBatches[b].calls[i].id}) = 1

\* C14: every entry sent is {id, name, response: {result: r}} with r the value
\* the dispatcher returned at that index; with the App's dispatcher a
\* set_reminder call with a non-empty task and a non-zero delay gets
\* "Reminder set for " + task, and any other set_reminder call gets "done".
C14_WrappedResult ==
    \A b \in DOMAIN toolBatches :
        toolBatches[b].stage = "sent" =>
            \A i \in DOMAIN toolBatches[b].sent :
                LET call == toolBatches[b].calls[i]
                    entry == toolBatches[b].sent[i]
                IN  /\ entry = [id |-> call.id, name |-> call.name,
                                response |-> [result |-> toolBatches[b].results[i]]]
                    /\ (toolBatches[b].by = "app" /\ call.name = SET_REMINDER) =>
                          entry.response.result =
                              IF call.args.task # "" /\ call.args.delay_minutes # 0
                              THEN "Reminder set for " \o call.args.task
                              ELSE "done"

\* The App's dispatcher has answered set_reminder{task: "call mom",
\* delay_minutes: 5} and the entry has been sent under the id of the call.
C14_Witness ==
    \E b \in DOMAIN toolBatches :
        /\ toolBatches[b].by = "app"
        /\ toolBatches[b].stage = "sent"
        /\ \E i \in DOMAIN toolBatches[b].sent :
              /\ toolBatches[b].calls[i].args.delay_minutes = 5
              /\ toolBatches[b].sent[i] =
                    [id |-> "c1", name |-> SET_REMINDER,
                     response |-> [result |-> "Reminder set for call mom"]]

\* C14 as stated: with the App's dispatcher every set_reminder call is answered
\* "Reminder set for " + task.
C14_ReminderAlwaysSet ==
    \A b \in DOMAIN toolBatches :
        (toolBatches[b].stage = "sent" /\ toolBatches[b].by = "app") =>
            \A i \in DOMAIN toolBatches[b].sent :
                toolBatches[b].calls[i].name = SET_REMINDER =>
                    toolBatches[b].sent[i].response.result =
                        "Reminder set for " \o toolBatches[b].calls[i].args.task

\* C15: at most one remote channel is open or being opened at any moment.
C15_AtMostOneChannel ==
    Cardinality({a \in DOMAIN attempts : attempts[a].ch \in {"opening", "open"}}) <= 1

\* C16: startVideoStream changes nothing when sampling is running or when the
\* session reference is null, and otherwise registers the one timer; at most
\* one sampling timer is registered at any time, and only while videoInterval
\* holds it.
C16_OneVideoTimer ==
    [][/\ videoTimers' <= 1
       /\ videoTimers' = 1 <=> videoInterval' # NULL
       /\ (lastOp' = "startVideo" /\ (session = NULL \/ videoInterval # NULL)) =>
             UNCHANGED <<fields, channel, devices, playback, toolBatches, caller>>
       /\ videoTimers' > videoTimers =>
             (lastOp' = "startVideo" /\ session # NULL /\ videoInterval = NULL)]_vars

\* startVideoStream has just returned on a session that holds no channel
\* reference (stop() has cleared it while the channel is still open): no timer.
C16_Witness ==
    /\ lastOp = "startVideo"
    /\ session = NULL
    /\ videoTimers = 0
    /\ \E a \in DOMAIN attempts : attempts[a].ch = "open"

\* C17: an audio chunk that cannot be decoded is dropped inside playAudioChunk:
\* whether atob rejects it (before the await) or the sample buffer cannot be
\* built (after it), nothing is reported, no volume callback fires, the
\* in-flight set, the cursor and every other field stay as they were, so the
\* next chunk is scheduled as if the bad one had never arrived.
C17_BadChunkDropped ==
    [][/\ (microtask # <<>> /\ microtask[1].kind = "badPcm") =>
             /\ microtask' = <<>>
             /\ UNCHANGED <<fields, channel, devices, clock, chunks, resetTimers,
                            flushedSince, toolBatches, caller>>
       /\ (lastOp' = "handleMessage" /\ lastMsg'[1].audio = "badB64") =>
             UNCHANGED <<fields, channel, devices, playback, toolBatches, caller>>]_vars

\* A bad buffer has just been dropped while an earlier chunk is in flight and
\* the cursor stands past 0.
C17_Witness ==
    /\ lastOp = "playContinuation"
    /\ lastMsg[1].audio = "badPcm"
    /\ scheduledSources # {}
    /\ nextStartTime > 0

\* C18: an attempt whose channel open has failed, by a fault of the channel or
\* by the rejection of the open itself, has reported ERROR (so a session that
\* reported CONNECTING does not stay there) and the session was torn down.
C18_OpenFailureReported ==
    \A a \in DOMAIN attempts :
        (attempts[a].ch \in {"errored", "failed"} \/ attempts[a].promise = "rejected") =>
            /\ InSeq(ERROR, reports[a])
            /\ session # a

Abs(x) == IF x < 0 THEN 0 - x ELSE x

\* C19: every sample in [-1, 1] comes back from encode-then-decode within one
\* quantization step: |back - s| <= 1/32768, on the cross-multiplied numerators.
C19_RoundTripWithinOneStep ==
    pcm # <<>> /\ pcm.stage = "back" =>
        \A i \in DOMAIN pcm.frame :
            Abs(pcm.frame[i]) <= SampleDen =>
                Abs(pcm.back[i].num * SampleDen - pcm.frame[i] * pcm.back[i].den)
                    <= SampleDen

\* C20: every encoded sample lies in [-32768, 32767]; a sample <= -1 encodes to
\* -32768, a sample >= 1 to 32767, 0 to 0, and a larger sample never encodes to
\* a smaller value.
C20_ClampedEncoding ==
    pcm # <<>> /\ pcm.stage # "float" =>
        /\ Len(pcm.int16) = Len(pcm.frame)
        /\ \A i \in DOMAIN pcm.frame :
              /\ pcm.int16[i] \in (0 - 32768)..32767
              /\ pcm.frame[i] <= 0 - SampleDen => pcm.int16[i] = 0 - 32768
              /\ pcm.frame[i] >= SampleDen => pcm.int16[i] = 32767
              /\ pcm.frame[i] = 0 => pcm.int16[i] = 0
              /\ \A j \in DOMAIN pcm.frame :
                    pcm.frame[i] <= pcm.frame[j] => pcm.int16[i] <= pcm.int16[j]

\* A frame with a sample below -1 and one above 1 has been encoded.
C20_Witness ==
    /\ pcm # <<>>
    /\ pcm.stage = "int16"
    /\ \E i, j \in DOMAIN pcm.frame :
          pcm.frame[i] < 0 - SampleDen /\ pcm.frame[j] > SampleDen

\* C21: every microphone frame delivered while the session is active fires
\* onVolumeChange(rms, 0) exactly once and issues exactly one send; a frame
\* delivered while the session is not active does neither; and a frame, whether
\* or not its send goes on to fail, changes nothing of the session, of its
\* channel or of the states reported.
C21_CaptureFrame ==
    [][(lastFrame' # lastFrame /\ lastFrame'.kind = "audio") =>
          /\ lastFrame'.volume = (IF active THEN 1 ELSE 0)
          /\ lastFrame'.sends = (IF active THEN 1 ELSE 0)
          /\ UNCHANGED <<fields, channel, devices, reports, lastReported, liveState>>]_vars

\* A frame is processed, volume and send, right after a frame whose send failed.
C21_Witness ==
    /\ lastFrame # <<>>
    /\ lastFrame.kind = "audio"
    /\ lastFrame.afterFailure
    /\ lastFrame.active
    /\ lastFrame.volume = 1
    /\ lastFrame.sends = 1

\* C22: a video sampler tick sends nothing when the session is not active or
\* when the video has no frame dimensions yet, and exactly one frame otherwise.
C22_VideoTickSkipsUnreadyVideo ==
    lastFrame # <<>> /\ lastFrame.kind = "video" =>
        lastFrame.sends = (IF lastFrame.active /\ lastFrame.ready THEN 1 ELSE 0)

\* C23: the reset onVolumeChange(0, 0) of a scheduled chunk never fires before
\* that chunk's scheduled end, its start time plus its duration.
C23_ResetNotBeforeChunkEnd ==
    [][\A c \in resetTimers \ resetTimers' :
          clock >= chunks[c].start + chunks[c].dur]_vars

\* The captions of the last message but the "[Interrupted]" one it opened with.
Transcribed ==
    IF lastMsg # <<>> /\ lastMsg[1].interrupted THEN Tail(lastCaptions) ELSE lastCaptions

NonEmpty(text) == text \notin {"absent", ""}

\* C24: for each inbound message, after the "[Interrupted]" caption (model
\* tagged, complete) that an interrupted message emits first and only then,
\* onCaption fires at most once tagged user, iff the message carries non-empty
\* input transcription text, and at most once tagged model, iff it carries
\* non-empty output transcription text, each with that text and with isComplete
\* equal to the message's turnComplete; the user caption precedes the model one.
C24_Captions ==
    lastMsg # <<>> =>
        LET m == lastMsg[1]
            users == {i \in DOMAIN Transcribed : Transcribed[i].isUser}
            models == {i \in DOMAIN Transcribed : ~Transcribed[i].isUser}
        IN  /\ Len(lastCaptions) = Len(Transcribed) + (IF m.interrupted THEN 1 ELSE 0)
            /\ m.interrupted =>
                  lastCaptions[1] = [text |-> "[Interrupted]", isUser |-> FALSE,
                                     isComplete |-> TRUE]
            /\ Cardinality(users) = (IF NonEmpty(m.inText) THEN 1 ELSE 0)
            /\ Cardinality(models) = (IF NonEmpty(m.outText) THEN 1 ELSE 0)
            /\ \A i \in users : Transcribed[i].text = m.inText
            /\ \A i \in models : Transcribed[i].text = m.outText
            /\ \A i \in DOMAIN Transcribed : Transcribed[i].isComplete = m.turnComplete
            /\ \A i \in users : \A j \in models : i < j

\* An interrupted message with audio, both transcriptions and a tool call, whose
\* turn is not complete, has been handled: three captions.
C24_Witness ==
    /\ lastMsg # <<>>
    /\ lastMsg[1].interrupted
    /\ lastMsg[1].audio = "ok"
    /\ lastMsg[1].inText = "hello"
    /\ lastMsg[1].outText = "hi"
    /\ ~lastMsg[1].turnComplete
    /\ lastMsg[1].tool # <<>>
    /\ Len(lastCaptions) = 3

\* C24 as stated: at most one caption tagged model, one iff the message carries
\* non-empty output transcription text, and every caption of the message has
\* isComplete equal to its turnComplete.
C24_OneModelCaption ==
    lastMsg # <<>> =>
        /\ Cardinality({i \in DOMAIN lastCaptions : ~lastCaptions[i].isUser})
              = (IF NonEmpty(lastMsg[1].outText) THEN 1 ELSE 0)
        /\ \A i \in DOMAIN lastCaptions :
              lastCaptions[i].isComplete = lastMsg[1].turnComplete

\* C25: when stop() is called while the only connect() is still pending, the
\* session never becomes active afterwards. connect() creates the audio contexts
\* before its first await and only stop() drops them, so on a session connected
\* once, a missing input context means stop() has run since connect() began.
C25_StoppedConnectStaysInactive ==
    (attempts # <<>> /\ inputAudioContext = NULL) => ~active

\* The in-flight set holds exactly the chunks scheduled and neither ended nor
\* flushed, and their playback intervals [start, start + dur) are disjoint.
InFlight ==
    /\ scheduledSources = {c \in DOMAIN chunks : ~chunks[c].stopped /\ ~chunks[c].ended}
    /\ \A c, d \in scheduledSources :
          c # d => \/ chunks[c].start + chunks[c].dur <= chunks[d].start
                   \/ chunks[d].start + chunks[d].dur <= chunks[c].start

\* C26: in every reachable state scheduledSources contains exactly the chunks
\* that were scheduled and have neither ended nor been flushed, with pairwise
\* disjoint playback intervals; and the end-of-playback event of a chunk that
\* was already flushed changes no field of the session.
C26_InFlightSet ==
    [][/\ InFlight'
       /\ \A c \in DOMAIN chunks :
             (chunks[c].stopped /\ ~chunks[c].ended /\ chunks'[c].ended)
                => UNCHANGED fields]_vars

\* The end event of a flushed chunk has arrived while a later chunk is in flight.
C26_Witness ==
    /\ \E c \in DOMAIN chunks : chunks[c].stopped /\ chunks[c].ended
    /\ scheduledSources # {}

\* C27: after stop() has returned, and until connect() is called again, a server
\* message delivered to the session fires no onCaption. On a session connected
\* once, a missing input context on an inactive session means stop() has run.
C27_NoCallbacksAfterStop ==
    (attempts # <<>> /\ inputAudioContext = NULL /\ ~active /\ lastOp = "handleMessage")
        => lastCaptions = <<>>

\* C28: once a session has reported ERROR for a connection attempt, it reports
\* no other state for that attempt: ERROR stays the last state it reported.
C28_ErrorIsFinal ==
    \A a \in DOMAIN attempts :
        (\E i \in DOMAIN reports[a] : reports[a][i] = ERROR)
            => reports[a][Len(reports[a])] = ERROR

\* C29: after any recognition error event isListening is false; the errors
\* "no-speech" and "aborted" are not logged while every other error is;
\* startListening does nothing while isListening and stopListening does nothing
\* while not, so start() is never issued to a recognizer that is listening.
C29_SpeechHelper ==
    /\ speechLog.op = "onerror" =>
          /\ ~isListening
          /\ speechLog.logged = (speechLog.error \notin {"no-speech", "aborted"})
    /\ speechLog.op \in {"startNoOp", "stop"} => isListening
    /\ speechLog.op \in {"start", "stopNoOp"} => ~isListening
    /\ speechLog.op = "start" => speechLog.on \notin {"listening", "stopping"}
    /\ recognition \in {"listening", "stopping"} => isListening

\* startListening has been called on a listening recognizer and did nothing.
C29_Witness ==
    /\ speechLog.op = "startNoOp"
    /\ speechLog.on = "listening"
    /\ recognition = "listening"
    /\ isListening

\* C30: no two reminders in the App's list share an id.
C30_UniqueReminderIds ==
    \A i, j \in DOMAIN reminders : i # j => reminders[i].id # reminders[j].id

====
